---- MODULE Spec2Model ----
(***************************************************************************)
(* Model of luni/src/main/native/java_text_Bidi.cpp: the JNI binding of    *)
(* java.text.Bidi to ICU's ubidi.  The state is the native heap of         *)
(* BiDiData objects (each owning one UBiDi and at most one embedding-level *)
(* buffer), the handles the managed caller holds, and the outcome of the   *)
(* last native call (return value and pending exception).                  *)
(*                                                                         *)
(* The ubidi_* operators model the ICU functions the binding calls, as far *)
(* as ICU's ubidi.h contract fixes them.  A text is a sequence of          *)
(* directional classes (strong left-to-right, strong right-to-left,        *)
(* whitespace): a single paragraph without block separators, digits or     *)
(* explicit directional formatting characters.  Allocation succeeds.  The  *)
(* caller works on one paragraph object at a time and calls setPara only   *)
(* on objects it got from open.                                            *)
(***************************************************************************)
EXTENDS Integers, Sequences, FiniteSets, TLC

VARIABLES heap, owned, call, ret, exc

vars == <<heap, owned, call, ret, exc>>

(* Bounds of the model. *)
MaxLen == 2
MaxHandles == 2
MaxReorderLen == 3

(* unicode/ubidi.h *)
UBIDI_MAX_EXPLICIT_LEVEL == 125
UBIDI_DEFAULT_LTR == 254

Handles == 1..MaxHandles

(* The values a read of uninitialised or freed memory is modelled to give. *)
GarbageBytes == {0, 127}

GarbageInts == {-1, 0}

Max(a, b) == IF a >= b THEN a ELSE b

Fill(n, v) == [i \in 1..n |-> v]

SeqsUpTo(S, n) == UNION {[1..k -> S] : k \in 0..n}

(* An address of the native heap that holds no object. *)
FreeSlot == [kind |-> "free"]

(* new BiDiData(ubidi_open()) : an allocated object that was never set. *)
NewObject ==
    [kind |-> "obj", pParaBiDi |-> 0, length |-> 0, paraLevel |-> 0,
     direction |-> "LTR", trailingWSStart |-> 0, levelsAt |-> "null",
     start |-> 0, levels |-> <<>>, ws |-> <<>>,
     mEmbeddingLevels |-> FALSE, dangling |-> "no"]

Allocated(h) == heap[h].kind = "obj"

FreeIds == {h \in Handles : ~Allocated(h)}

NewId == CHOOSE h \in FreeIds : \A g \in FreeIds : h <= g

(* A jarray argument: NULL or an array. *)
JNull == [isNull |-> TRUE, elems |-> <<>>]

JArray(s) == [isNull |-> FALSE, elems |-> s]

(* IS_VALID_PARA(x): x->pParaBiDi == x, set by a successful ubidi_setPara. *)
IsValidPara(hp, h) == hp[h].kind = "obj" /\ hp[h].pParaBiDi = h

(* A line object: its pParaBiDi is another object's address. *)
IsLine(hp, h) == hp[h].kind = "obj" /\ hp[h].pParaBiDi \notin {0, h}

NoCall == [op |-> "none"]

Init ==
    /\ heap = [h \in Handles |-> FreeSlot]
    /\ owned = {}
    /\ call = NoCall
    /\ ret = 0
    /\ exc = "none"

(* Bidi_ubidi_open *)
Bidi_ubidi_open ==
    /\ call = NoCall
    /\ FreeIds # {}
    /\ owned = {}
    /\ heap' = [heap EXCEPT ![NewId] = NewObject]
    /\ owned' = owned \cup {NewId}
    /\ call' = [op |-> "open", h |-> NewId]
    /\ ret' = NewId
    /\ exc' = "none"

(* The lines whose pParaBiDi is h lose what they point to. *)
Orphan(hp, h, how) ==
    [l \in Handles |->
        IF /\ l # h
           /\ hp[l].kind = "obj"
           /\ hp[l].pParaBiDi = h
           /\ hp[l].dangling = "no"
        THEN [hp[l] EXCEPT !.dangling = how]
        ELSE hp[l]]

(* Bidi_ubidi_close: delete biDiData(ptr) *)
Bidi_ubidi_close(h) ==
    /\ call = NoCall
    /\ h \in owned
    /\ heap' = Orphan([heap EXCEPT ![h] = FreeSlot], h, "parent")
    /\ owned' = owned \ {h}
    /\ call' = [op |-> "close", h |-> h]
    /\ ret' = 0
    /\ exc' = "none"

DirectionOf(level) == IF level % 2 = 0 THEN "LTR" ELSE "RTL"

Classes == {"L", "R", "WS"}

ClassDir(c) == IF c = "R" THEN 1 ELSE 0

(* The direction of the nearest character that is not whitespace on one side
   of i, else that of the paragraph level (sot, eot). *)
PrevStrongDir(text, i, pl) ==
    LET js == {j \in 1..(i - 1) : text[j] # "WS"}
    IN IF js = {} THEN pl % 2
       ELSE ClassDir(text[CHOOSE j \in js : \A k \in js : k <= j])

NextStrongDir(text, i, pl) ==
    LET js == {j \in (i + 1)..Len(text) : text[j] # "WS"}
    IN IF js = {} THEN pl % 2
       ELSE ClassDir(text[CHOOSE j \in js : \A k \in js : j <= k])

(* UAX #9 for the classes of the model: (N1)(N2) give a whitespace the
   direction both of its sides agree on, else the embedding direction; (I1)(I2)
   raise a level whose parity is not the character's direction; (L1) puts
   trailing whitespace at the paragraph level. *)
ResolvedLevel(text, i, pl, x) ==
    LET dir == IF text[i] # "WS" THEN ClassDir(text[i])
               ELSE IF PrevStrongDir(text, i, pl) = NextStrongDir(text, i, pl)
               THEN PrevStrongDir(text, i, pl)
               ELSE x % 2
    IN IF \A j \in i..Len(text) : text[j] = "WS" THEN pl
       ELSE IF x % 2 = dir THEN x
       ELSE x + 1

(* A default paraLevel takes the direction of the first strong character. *)
ResolvedParaLevel(text, paraLevel) ==
    IF paraLevel >= UBIDI_DEFAULT_LTR
    THEN NextStrongDir(text, 0, paraLevel)
    ELSE paraLevel

(* ubidi_setPara(pBiDi, text, length, paraLevel, embeddingLevels, &err), text
   not NULL: [obj, err] as the library leaves them.  A copy of the
   embeddingLevels pointer, not of the levels, becomes pBiDi->levels, and the
   resolved levels are written through it. *)
ubidi_setPara(h, o, text, paraLevel, embeddingLevels) ==
    IF paraLevel > UBIDI_MAX_EXPLICIT_LEVEL /\ paraLevel < UBIDI_DEFAULT_LTR
    THEN [obj |-> o, err |-> "U_ILLEGAL_ARGUMENT_ERROR"]
    ELSE
      LET length == Len(text)
          pl == ResolvedParaLevel(text, paraLevel)
          at == IF embeddingLevels.isNull THEN "own" ELSE "emb"
          started ==
              [o EXCEPT !.pParaBiDi = 0, !.length = length, !.paraLevel = pl,
                        !.direction = DirectionOf(pl), !.trailingWSStart = length,
                        !.levelsAt = "null", !.start = 0, !.levels = <<>>,
                        !.ws = <<>>, !.dangling = "no"]
          explicit ==
              [i \in 1..length |->
                  IF embeddingLevels.isNull THEN pl
                  ELSE Max(embeddingLevels.elems[i] % 128, pl)]
          flags == {pl % 2}
                   \cup {ClassDir(text[i]) : i \in {j \in 1..length : text[j] # "WS"}}
                   \cup {explicit[i] % 2 : i \in 1..length}
      IN IF length = 0
         THEN [obj |-> [started EXCEPT !.pParaBiDi = h], err |-> "U_ZERO_ERROR"]
         ELSE IF /\ ~embeddingLevels.isNull
                 /\ \E i \in 1..length :
                       embeddingLevels.elems[i] % 128 > UBIDI_MAX_EXPLICIT_LEVEL
         THEN [obj |-> [started EXCEPT !.levelsAt = at,
                                       !.levels = embeddingLevels.elems],
               err |-> "U_ILLEGAL_ARGUMENT_ERROR"]
         ELSE IF Cardinality(flags) = 1
         THEN [obj |-> [started EXCEPT !.pParaBiDi = h, !.levelsAt = at,
                                       !.trailingWSStart = 0],
               err |-> "U_ZERO_ERROR"]
         ELSE [obj |-> [started EXCEPT
                           !.pParaBiDi = h, !.levelsAt = at, !.direction = "MIXED",
                           !.levels = [i \in 1..length |->
                                          ResolvedLevel(text, i, pl, explicit[i])],
                           !.ws = [i \in 1..length |-> text[i] = "WS"]],
               err |-> "U_ZERO_ERROR"]

(* BiDiData::setEmbeddingLevels: mEmbeddingLevels.reset(newEmbeddingLevels)
   deletes the buffer held so far; a UBiDi whose levels point at it is left
   pointing at freed memory. *)
setEmbeddingLevels(o, newEmbeddingLevels) ==
    [o EXCEPT !.mEmbeddingLevels = newEmbeddingLevels,
              !.levelsAt = IF @ = "emb" THEN "freed" ELSE @]

(* env->GetByteArrayRegion(array, 0, length, dst) into new jbyte[length]: the
   contents dst can have afterwards.  A region that is not inside the array
   raises ArrayIndexOutOfBoundsException and copies nothing. *)
GetByteArrayRegion(array, length) ==
    IF length <= Len(array.elems)
    THEN {SubSeq(array.elems, 1, length)}
    ELSE [1..length -> GarbageBytes]

(* Bidi_ubidi_setPara.  text stands for the jcharArray and, when it is not
   NULL, holds at least length characters. *)
Bidi_ubidi_setPara(h, text, length, paraLevel, newEmbeddingLevels) ==
    /\ call = NoCall
    /\ h \in owned
    /\ ~IsLine(heap, h)
    /\ \E dst \in GetByteArrayRegion(newEmbeddingLevels, length) :
         LET pending == IF /\ ~newEmbeddingLevels.isNull
                           /\ length > Len(newEmbeddingLevels.elems)
                        THEN "ArrayIndexOutOfBoundsException"
                        ELSE "none"
             data == setEmbeddingLevels(heap[h], ~newEmbeddingLevels.isNull)
             freed == IF heap[h].levelsAt = "emb"
                      THEN Orphan([heap EXCEPT ![h] = data], h, "levels")
                      ELSE [heap EXCEPT ![h] = data]
             out == ubidi_setPara(h, data, text.elems, paraLevel,
                        IF newEmbeddingLevels.isNull THEN JNull ELSE JArray(dst))
         IN IF text.isNull
            THEN /\ heap' = freed
                 /\ exc' = "NullPointerException"
            ELSE /\ heap' = IF out.obj = data
                            THEN freed
                            ELSE Orphan([freed EXCEPT ![h] = out.obj], h, "levels")
                 /\ exc' = IF out.err # "U_ZERO_ERROR" THEN out.err ELSE pending
    /\ call' = [op |-> "setPara", h |-> h, text |-> text.isNull, length |-> length,
                levels |-> IF newEmbeddingLevels.isNull THEN -1
                           ELSE Len(newEmbeddingLevels.elems)]
    /\ ret' = 0
    /\ UNCHANGED owned

Texts == {JArray(s) : s \in SeqsUpTo(Classes, MaxLen)}

(* The arguments the caller passes to setPara.  With a text of n characters:
   an explicit paragraph level and no level array, the default paragraph
   level, a level array with a level for each character; and the calls that
   are wrong in one way: a level above the maximum, a level array that is too
   short or too long, no text, a paragraph level above the maximum. *)
SetParaArgs ==
    {[text |-> t, length |-> Len(t.elems), paraLevel |-> pl, levels |-> JNull] :
        t \in Texts, pl \in {0, 1, UBIDI_DEFAULT_LTR}}
    \cup {[text |-> t, length |-> Len(t.elems), paraLevel |-> 0, levels |-> e] :
            t \in Texts, e \in {JArray(Fill(MaxLen, 0)), JArray(Fill(MaxLen, 1))}}
    \cup {[text |-> t, length |-> Len(t.elems), paraLevel |-> 0, levels |-> e] :
            t \in {JArray(Fill(MaxLen, "L")), JArray(Fill(MaxLen, "R"))},
            e \in {JArray(Fill(MaxLen, 127)), JArray(Fill(MaxLen - 1, 0)),
                   JArray(Fill(MaxLen + 1, 0))}}
    \cup {[text |-> JNull, length |-> MaxLen, paraLevel |-> 0, levels |-> e] :
            e \in {JNull, JArray(Fill(MaxLen, 0))}}
    \cup {[text |-> JArray(Fill(MaxLen, "L")), length |-> MaxLen, paraLevel |-> 127,
           levels |-> e] :
            e \in {JNull, JArray(Fill(MaxLen, 0))}}

(* IS_VALID_PARA_OR_LINE(x): a paragraph object set with success, or a line
   whose pParaBiDi is one.  The test reads the parent object; when that was
   deleted the read can give either answer. *)
IsValidParaOrLine(hp, h) ==
    IF hp[h].pParaBiDi \in {0, h} THEN {IsValidPara(hp, h)}
    ELSE IF hp[h].dangling = "parent" THEN BOOLEAN
    ELSE {IsValidPara(hp, hp[h].pParaBiDi)}

(* What reading n levels through pBiDi->levels can give: what was written
   there, in the object's own or its parent's memory, and anything when the
   memory was freed, rewritten or never written. *)
ReadLevels(hp, h, n) ==
    IF n = 0 THEN {<<>>}
    ELSE IF hp[h].levelsAt \in {"own", "emb"} /\ Len(hp[h].levels) >= n
    THEN {SubSeq(hp[h].levels, 1, n)}
    ELSE IF /\ hp[h].levelsAt = "para"
            /\ hp[h].dangling = "no"
            /\ Len(hp[hp[h].pParaBiDi].levels) >= hp[h].start + n
    THEN {SubSeq(hp[hp[h].pParaBiDi].levels, hp[h].start + 1, hp[h].start + n)}
    ELSE [1..n -> GarbageBytes]

(* The body of Bidi_ubidi_getLength: [ret, exc, obj], obj the object
   afterwards.  ubidi_getLength gives 0 for an object that is not valid. *)
getLength(hp, h) ==
    {[ret |-> IF valid THEN hp[h].length ELSE 0, exc |-> "none", obj |-> hp[h]] :
        valid \in IsValidParaOrLine(hp, h)}

(* Bidi_ubidi_getLength *)
Bidi_ubidi_getLength(h) ==
    /\ call = NoCall
    /\ h \in owned
    /\ \E r \in getLength(heap, h) :
         /\ ret' = r.ret
         /\ exc' = r.exc
         /\ heap' = [heap EXCEPT ![h] = r.obj]
    /\ call' = [op |-> "getLength", h |-> h]
    /\ UNCHANGED owned

(* ubidi_getLevels that marks the trailing run as written without giving the
   object a levels array of its own. *)
ubidi_getLevels_unfilled(hp, h) ==
    LET o == hp[h]
    IN IF o.trailingWSStart = o.length
       THEN {[levels |-> lv, obj |-> o] : lv \in ReadLevels(hp, h, o.length)}
       ELSE {[levels |-> pre \o Fill(o.length - o.trailingWSStart, o.paraLevel),
              obj |-> [o EXCEPT !.trailingWSStart = o.length]] :
                 pre \in ReadLevels(hp, h, o.trailingWSStart)}

(* ubidi_getLevels on a valid object of length > 0: the levels, and the object
   afterwards.  An object with an implicit trailing run gets a levels array of
   its own, the run filled in with the paragraph level. *)
ubidi_getLevels(hp, h) ==
    LET o == hp[h]
    IN IF o.trailingWSStart = o.length
       THEN {[levels |-> lv, obj |-> o] : lv \in ReadLevels(hp, h, o.length)}
       ELSE {[levels |-> pre \o Fill(o.length - o.trailingWSStart, o.paraLevel),
              obj |-> [o EXCEPT !.levels = pre \o Fill(o.length - o.trailingWSStart,
                                                        o.paraLevel),
                                !.levelsAt = "own",
                                !.trailingWSStart = o.length]] :
                 pre \in ReadLevels(hp, h, o.trailingWSStart)}

(* Bidi_ubidi_getLevels that copies the levels before the trailing run only. *)
getLevels_short(hp, h) ==
    UNION {IF ~valid
           THEN {[ret |-> JNull, exc |-> "U_INVALID_STATE_ERROR", obj |-> hp[h]]}
           ELSE IF hp[h].length <= 0
           THEN {[ret |-> JNull, exc |-> "U_ILLEGAL_ARGUMENT_ERROR", obj |-> hp[h]]}
           ELSE {[ret |-> JArray(SubSeq(got.levels, 1, hp[h].trailingWSStart)),
                  exc |-> "none", obj |-> got.obj] : got \in ubidi_getLevels(hp, h)} :
              valid \in IsValidParaOrLine(hp, h)}

(* The body of Bidi_ubidi_getLevels: [ret, exc, obj]. *)
getLevels(hp, h) ==
    UNION {IF ~valid
           THEN {[ret |-> JNull, exc |-> "U_INVALID_STATE_ERROR", obj |-> hp[h]]}
           ELSE IF hp[h].length <= 0
           THEN {[ret |-> JNull, exc |-> "U_ILLEGAL_ARGUMENT_ERROR", obj |-> hp[h]]}
           ELSE {[ret |-> JArray(SubSeq(got.levels, 1, hp[h].length)),
                  exc |-> "none", obj |-> got.obj] : got \in ubidi_getLevels(hp, h)} :
              valid \in IsValidParaOrLine(hp, h)}

(* Bidi_ubidi_getLevels *)
Bidi_ubidi_getLevels(h) ==
    /\ call = NoCall
    /\ h \in owned
    /\ \E r \in getLevels(heap, h) :
         /\ ret' = r.ret
         /\ exc' = r.exc
         /\ heap' = [heap EXCEPT ![h] = r.obj]
    /\ call' = [op |-> "getLevels", h |-> h]
    /\ UNCHANGED owned

(* The maximal ranges of equal level in positions s..limit-1 of lv, scanned
   from position p (positions count from 0). *)
RECURSIVE LevelRuns(_, _, _, _)
LevelRuns(lv, p, s, limit) ==
    IF p >= limit
    THEN (IF s < limit THEN <<[start |-> s, limit |-> limit]>> ELSE <<>>)
    ELSE IF p > s /\ lv[p + 1] # lv[p]
    THEN <<[start |-> s, limit |-> p]>> \o LevelRuns(lv, p + 1, p, limit)
    ELSE LevelRuns(lv, p + 1, s, limit)

(* ubidi_getRuns (ubiline.c), the runs in logical order: none for an empty
   paragraph, one for an object that is not mixed, else the level runs before
   trailingWSStart and one run for the trailing whitespace. *)
ubidi_getRuns(o, lv) ==
    IF o.length = 0 THEN <<>>
    ELSE IF o.direction # "MIXED" THEN <<[start |-> 0, limit |-> o.length]>>
    ELSE LevelRuns(lv, 0, 0, o.trailingWSStart)
         \o (IF o.trailingWSStart < o.length
             THEN <<[start |-> o.trailingWSStart, limit |-> o.length]>>
             ELSE <<>>)

(* The levels ubidi_getRuns and ubidi_getLogicalRun read. *)
RunLevels(hp, h) ==
    IF hp[h].direction # "MIXED" THEN {<<>>}
    ELSE ReadLevels(hp, h, hp[h].trailingWSStart)

(* ubidi_countRuns on a valid object. *)
ubidi_countRuns(o, lv) == Len(ubidi_getRuns(o, lv))

(* ubidi_getLogicalRun(pBiDi, logicalPosition, &limit, &level) *)
ubidi_getLogicalRun(o, lv, logicalPosition) ==
    LET runs == ubidi_getRuns(o, lv)
        i == CHOOSE i \in 1..Len(runs) :
                 /\ runs[i].start <= logicalPosition
                 /\ logicalPosition < runs[i].limit
    IN [limit |-> runs[i].limit,
        level |-> IF \/ o.direction # "MIXED"
                     \/ logicalPosition >= o.trailingWSStart
                  THEN o.paraLevel
                  ELSE lv[logicalPosition + 1]]

(* The body of Bidi_ubidi_countRuns: [ret, exc, obj]. *)
countRuns(hp, h) ==
    UNION {IF ~valid
           THEN {[ret |-> -1, exc |-> "U_INVALID_STATE_ERROR", obj |-> hp[h]]}
           ELSE {[ret |-> ubidi_countRuns(hp[h], lv), exc |-> "none", obj |-> hp[h]] :
                    lv \in RunLevels(hp, h)} :
              valid \in IsValidParaOrLine(hp, h)}

(* Bidi_ubidi_countRuns *)
Bidi_ubidi_countRuns(h) ==
    /\ call = NoCall
    /\ h \in owned
    /\ \E r \in countRuns(heap, h) :
         /\ ret' = r.ret
         /\ exc' = r.exc
         /\ heap' = [heap EXCEPT ![h] = r.obj]
    /\ call' = [op |-> "countRuns", h |-> h]
    /\ UNCHANGED owned

(* The loop of Bidi_ubidi_getRuns without start = limit. *)
RECURSIVE RunObjects_samestart(_, _, _, _, _)
RunObjects_samestart(o, lv, runCount, i, start) ==
    IF i >= runCount THEN <<>>
    ELSE LET run == ubidi_getLogicalRun(o, lv, start)
         IN <<[start |-> start, limit |-> run.limit, level |-> run.level]>>
            \o RunObjects_samestart(o, lv, runCount, i + 1, start)

(* The loop of Bidi_ubidi_getRuns: run i starts where run i-1 ended. *)
RECURSIVE RunObjects(_, _, _, _, _)
RunObjects(o, lv, runCount, i, start) ==
    IF i >= runCount THEN <<>>
    ELSE LET run == ubidi_getLogicalRun(o, lv, start)
         IN <<[start |-> start, limit |-> run.limit, level |-> run.level]>>
            \o RunObjects(o, lv, runCount, i + 1, run.limit)

(* The body of Bidi_ubidi_getRuns: [ret, exc, obj]. *)
getRuns(hp, h) ==
    UNION {IF ~valid
           THEN {[ret |-> JNull, exc |-> "U_INVALID_STATE_ERROR", obj |-> hp[h]]}
           ELSE {[ret |-> JArray(RunObjects(hp[h], lv, ubidi_countRuns(hp[h], lv), 0, 0)),
                  exc |-> "none", obj |-> hp[h]] : lv \in RunLevels(hp, h)} :
              valid \in IsValidParaOrLine(hp, h)}

(* Bidi_ubidi_getRuns *)
Bidi_ubidi_getRuns(h) ==
    /\ call = NoCall
    /\ h \in owned
    /\ \E r \in getRuns(heap, h) :
         /\ ret' = r.ret
         /\ exc' = r.exc
         /\ heap' = [heap EXCEPT ![h] = r.obj]
    /\ call' = [op |-> "getRuns", h |-> h]
    /\ UNCHANGED owned

(* setTrailingWSStart (ubiline.c) for a line of n characters whose levels are
   lv and whose whitespace flags are ws: back across the trailing whitespace,
   then across what is at the paragraph level anyway. *)
RECURSIVE SkipWS(_, _)
SkipWS(ws, start) ==
    IF start > 0 /\ ws[start] THEN SkipWS(ws, start - 1) ELSE start

RECURSIVE SkipParaLevel(_, _, _)
SkipParaLevel(lv, paraLevel, start) ==
    IF start > 0 /\ lv[start] = paraLevel
    THEN SkipParaLevel(lv, paraLevel, start - 1)
    ELSE start

setTrailingWSStart(lv, ws, paraLevel) ==
    SkipParaLevel(lv, paraLevel, SkipWS(ws, Len(lv)))

(* What ubidi_setLine makes of pLineBiDi once its arguments are accepted.  plv
   is what reading the parent's levels gives; the line's levels point into the
   parent's at start, and its direction is found again from them. *)
LineObject(hp, ptr, start, limit, line, plv) ==
    LET para == hp[ptr]
        n == limit - start
        lv == SubSeq(plv, start + 1, limit)
        ws == SubSeq(para.ws, start + 1, limit)
        set == [line EXCEPT !.pParaBiDi = ptr, !.length = n,
                            !.paraLevel = para.paraLevel,
                            !.direction = para.direction,
                            !.levelsAt = "para", !.start = start,
                            !.dangling = IF para.levelsAt = "freed"
                                         THEN "levels" ELSE "no"]
        tws == setTrailingWSStart(lv, ws, para.paraLevel)
        direction ==
            IF tws = 0 THEN DirectionOf(para.paraLevel)
            ELSE IF tws < n /\ para.paraLevel % 2 # lv[1] % 2 THEN "MIXED"
            ELSE IF \A i \in 1..tws : lv[i] % 2 = lv[1] % 2
            THEN DirectionOf(lv[1])
            ELSE "MIXED"
    IN IF para.direction # "MIXED"
       THEN [set EXCEPT !.trailingWSStart =
                IF para.trailingWSStart <= start THEN 0
                ELSE IF para.trailingWSStart < limit
                THEN para.trailingWSStart - start
                ELSE n]
       ELSE CASE direction = "LTR" ->
                   [set EXCEPT !.direction = "LTR",
                               !.paraLevel = ((para.paraLevel + 1) \div 2) * 2,
                               !.trailingWSStart = 0]
              [] direction = "RTL" ->
                   [set EXCEPT !.direction = "RTL",
                               !.paraLevel = (para.paraLevel \div 2) * 2 + 1,
                               !.trailingWSStart = 0]
              [] OTHER ->
                   [set EXCEPT !.direction = "MIXED", !.trailingWSStart = tws]

(* ubidi_setLine that takes start == limit for a line. *)
ubidi_setLine_empty(hp, ptr, start, limit, line, plv) ==
    IF ~IsValidPara(hp, ptr)
    THEN [obj |-> line, err |-> "U_INVALID_STATE_ERROR"]
    ELSE IF start < 0 \/ start > limit
    THEN [obj |-> line, err |-> "U_ILLEGAL_ARGUMENT_ERROR"]
    ELSE IF limit < 0 \/ limit >= hp[ptr].length + 1
    THEN [obj |-> line, err |-> "U_ILLEGAL_ARGUMENT_ERROR"]
    ELSE [obj |-> LineObject(hp, ptr, start, limit, line, plv), err |-> "U_ZERO_ERROR"]

(* ubidi_setLine(pParaBiDi, start, limit, pLineBiDi, &status): [obj, err], obj
   the line object afterwards.  RETURN_VOID_IF_NOT_VALID_PARA, then
   RETURN_VOID_IF_BAD_RANGE(start, 0, limit) and (limit, 0, length + 1). *)
ubidi_setLine(hp, ptr, start, limit, line, plv) ==
    IF ~IsValidPara(hp, ptr)
    THEN [obj |-> line, err |-> "U_INVALID_STATE_ERROR"]
    ELSE IF start < 0 \/ start >= limit
    THEN [obj |-> line, err |-> "U_ILLEGAL_ARGUMENT_ERROR"]
    ELSE IF limit < 0 \/ limit >= hp[ptr].length + 1
    THEN [obj |-> line, err |-> "U_ILLEGAL_ARGUMENT_ERROR"]
    ELSE [obj |-> LineObject(hp, ptr, start, limit, line, plv), err |-> "U_ZERO_ERROR"]

(* Bidi_ubidi_setLine without maybeThrowIcuException after ubidi_setLine. *)
Bidi_ubidi_setLine_nothrow(ptr, start, limit) ==
    /\ call = NoCall
    /\ ptr \in owned
    /\ IF limit - start < 0
       THEN /\ exc' = "U_ILLEGAL_ARGUMENT_ERROR"
            /\ ret' = 0
            /\ UNCHANGED <<heap, owned>>
       ELSE /\ FreeIds # {}
            /\ \E plv \in ReadLevels(heap, ptr,
                              IF heap[ptr].direction = "MIXED"
                              THEN heap[ptr].length ELSE 0) :
                 LET out == ubidi_setLine(heap, ptr, start, limit, NewObject, plv)
                 IN heap' = [heap EXCEPT ![NewId] = out.obj]
            /\ exc' = "none"
            /\ owned' = owned \cup {NewId}
            /\ ret' = NewId
    /\ call' = [op |-> "setLine", h |-> ptr, start |-> start, limit |-> limit]

(* Bidi_ubidi_setLine.  The managed caller gets the returned handle only when
   no exception is pending. *)
Bidi_ubidi_setLine(ptr, start, limit) ==
    /\ call = NoCall
    /\ ptr \in owned
    /\ IF limit - start < 0
       THEN /\ exc' = "U_ILLEGAL_ARGUMENT_ERROR"
            /\ ret' = 0
            /\ UNCHANGED <<heap, owned>>
       ELSE /\ FreeIds # {}
            /\ \E plv \in ReadLevels(heap, ptr,
                              IF heap[ptr].direction = "MIXED"
                              THEN heap[ptr].length ELSE 0) :
                 LET out == ubidi_setLine(heap, ptr, start, limit, NewObject, plv)
                 IN /\ heap' = [heap EXCEPT ![NewId] = out.obj]
                    /\ exc' = IF out.err # "U_ZERO_ERROR" THEN out.err ELSE "none"
                    /\ owned' = IF out.err # "U_ZERO_ERROR" THEN owned
                                ELSE owned \cup {NewId}
            /\ ret' = NewId
    /\ call' = [op |-> "setLine", h |-> ptr, start |-> start, limit |-> limit]

(* prepareReorder (ubiline.c): FALSE, with indexMap untouched, for no levels
   or a level above UBIDI_MAX_EXPLICIT_LEVEL + 1. *)
prepareReorder(levels, length) ==
    /\ length > 0
    /\ \A i \in 1..length : levels[i] <= UBIDI_MAX_EXPLICIT_LEVEL + 1

MinLevel(levels, length) ==
    CHOOSE m \in {levels[i] : i \in 1..length} : \A i \in 1..length : m <= levels[i]

MaxLevel(levels, length) ==
    CHOOSE m \in {levels[i] : i \in 1..length} : \A i \in 1..length : levels[i] <= m

(* indexMap with positions start..end swapped end for end (positions from 0). *)
SwapInterval(indexMap, start, end) ==
    [i \in 1..Len(indexMap) |->
        IF start + 1 <= i /\ i <= end + 1
        THEN indexMap[start + end + 2 - i]
        ELSE indexMap[i]]

(* One pass of ubidi_reorderVisual: reverse every sequence of levels that are
   all >= maxLevel, from position start on. *)
RECURSIVE ReorderPass(_, _, _, _, _)
ReorderPass(indexMap, levels, length, maxLevel, start) ==
    LET from == {i \in start..(length - 1) : levels[i + 1] >= maxLevel}
    IN IF from = {} THEN indexMap
       ELSE LET first == CHOOSE i \in from : \A j \in from : i <= j
                below == {i \in (first + 1)..(length - 1) : levels[i + 1] < maxLevel}
                limit == IF below = {} THEN length
                         ELSE CHOOSE i \in below : \A j \in below : i <= j
                swapped == SwapInterval(indexMap, first, limit - 1)
            IN IF limit = length THEN swapped
               ELSE ReorderPass(swapped, levels, length, maxLevel, limit + 1)

RECURSIVE ReorderLoop(_, _, _, _, _)
ReorderLoop(indexMap, levels, length, maxLevel, minLevel) ==
    LET done == ReorderPass(indexMap, levels, length, maxLevel, 0)
    IN IF maxLevel - 1 >= minLevel
       THEN ReorderLoop(done, levels, length, maxLevel - 1, minLevel)
       ELSE done

(* ubidi_reorderVisual(levels, length, indexMap): indexMap afterwards. *)
ubidi_reorderVisual(levels, length, indexMap) ==
    IF ~prepareReorder(levels, length) THEN indexMap
    ELSE LET minLevel == MinLevel(levels, length)
             maxLevel == MaxLevel(levels, length)
             identity == [i \in 1..length |-> i - 1]
         IN IF minLevel = maxLevel /\ minLevel % 2 = 0 THEN identity
            ELSE ReorderLoop(identity, levels, length, maxLevel,
                             IF minLevel % 2 = 0 THEN minLevel + 1 ELSE minLevel)

(* Bidi_ubidi_reorderVisual without SetIntArrayRegion: the new int array keeps
   its zeros. *)
Bidi_ubidi_reorderVisual_unfilled(javaLevels, length) ==
    /\ call = NoCall
    /\ IF javaLevels.isNull
       THEN /\ exc' = "NullPointerException"
            /\ ret' = JNull
       ELSE /\ length <= Len(javaLevels.elems)
            /\ ret' = JArray(Fill(length, 0))
            /\ exc' = "none"
    /\ call' = [op |-> "reorderVisual", levels |-> javaLevels, length |-> length]
    /\ UNCHANGED <<heap, owned>>

(* Bidi_ubidi_reorderVisual: indexMap is new int[length], not initialised. *)
Bidi_ubidi_reorderVisual(javaLevels, length) ==
    /\ call = NoCall
    /\ IF javaLevels.isNull
       THEN /\ exc' = "NullPointerException"
            /\ ret' = JNull
       ELSE /\ length <= Len(javaLevels.elems)
            /\ \E indexMap \in [1..length -> GarbageInts] :
                 ret' = JArray(ubidi_reorderVisual(javaLevels.elems, length, indexMap))
            /\ exc' = "none"
    /\ call' = [op |-> "reorderVisual", levels |-> javaLevels, length |-> length]
    /\ UNCHANGED <<heap, owned>>

(* The level arrays a caller passes to reorderVisual. *)
LevelBytes == {0, 1, 2, 127}

LevelArrays == {JNull} \cup {JArray(s) : s \in SeqsUpTo(LevelBytes, MaxReorderLen)}

(* The native method returns to the managed caller registered in gMethods:
   the caller takes the result and handles a pending exception before it
   calls again. *)
Return ==
    /\ call # NoCall
    /\ call' = NoCall
    /\ ret' = 0
    /\ exc' = "none"
    /\ UNCHANGED <<heap, owned>>

Next ==
    \/ Bidi_ubidi_open
    \/ \E h \in Handles : Bidi_ubidi_close(h)
    \/ \E h \in Handles, a \in SetParaArgs :
          Bidi_ubidi_setPara(h, a.text, a.length, a.paraLevel, a.levels)
    \/ \E h \in Handles : Bidi_ubidi_getLength(h)
    \/ \E h \in Handles : Bidi_ubidi_getLevels(h)
    \/ \E h \in Handles : Bidi_ubidi_countRuns(h)
    \/ \E h \in Handles : Bidi_ubidi_getRuns(h)
    \/ \E ptr \in Handles, start \in -1..MaxLen, limit \in -1..(MaxLen + 1) :
          Bidi_ubidi_setLine(ptr, start, limit)
    \/ Return

Spec == Init /\ [][Next]_vars

(* reorderVisual takes no handle: its calls on their own. *)
NextReorder ==
    \/ \E javaLevels \in LevelArrays, length \in 0..MaxReorderLen :
          Bidi_ubidi_reorderVisual(javaLevels, length)
    \/ Return

SpecReorder == Init /\ [][NextReorder]_vars

(***************************************************************************)
(* Properties.                                                             *)
(***************************************************************************)

Identity(n) == [i \in 1..n |-> i - 1]

(* The finished call is reorderVisual on a whole, non-null level array. *)
ReorderedWhole ==
    /\ call.op = "reorderVisual"
    /\ ~call.levels.isNull
    /\ call.length = Len(call.levels.elems)

(* C8: for every n >= 0, reorderVisual of n zeros raises nothing and returns
   the identity permutation [0, 1, ..., n-1]. *)
C8_ZerosGiveIdentity ==
    (ReorderedWhole /\ \A i \in 1..call.length : call.levels.elems[i] = 0)
        => (exc = "none" /\ ret = JArray(Identity(call.length)))

C8_Witness ==
    /\ ReorderedWhole
    /\ call.length = MaxReorderLen
    /\ \A i \in 1..call.length : call.levels.elems[i] = 0
    /\ ret = JArray(Identity(MaxReorderLen))

(* C2: for every level array, whatever its bytes, reorderVisual returns an
   array of the same length holding each of 0..length-1 exactly once. *)
C2_AnyLevelsGivePermutation ==
    ReorderedWhole
        => /\ ~ret.isNull
           /\ Len(ret.elems) = call.length
           /\ {ret.elems[i] : i \in 1..Len(ret.elems)} = 0..(call.length - 1)

(* C3: a setPara call with a non-null override array whose length differs from
   the text length signals an illegal argument, and the paragraph is not
   resolved from those overrides. *)
C3_MismatchedOverridesRejected ==
    (call.op = "setPara" /\ call.levels # -1 /\ call.levels # call.length)
        => /\ exc = "U_ILLEGAL_ARGUMENT_ERROR"
           /\ ~(IsValidPara(heap, call.h) /\ heap[call.h].levelsAt = "emb")

(* C9: the levels buffer a handle's resolved paragraph refers to is still
   allocated, whatever setPara calls, failing ones included, came before. *)
C9_ResolvedLevelsStayAllocated ==
    \A h \in owned : IsValidPara(heap, h) => heap[h].levelsAt # "freed"

(* C10: every allocated object is one some caller holds the handle of, and a
   setLine call that raises an error returns handle 0. *)
C10_NoLineLeftBehind ==
    /\ \A h \in Handles : Allocated(h) => h \in owned
    /\ (call.op = "setLine" /\ exc # "none") => ret = 0

(* The finished call is setLine(paragraph, start, start) on a resolved
   paragraph, 0 <= start <= paragraph length. *)
EmptyLineAsked ==
    /\ call.op = "setLine"
    /\ IsValidPara(heap, call.h)
    /\ call.start = call.limit
    /\ 0 <= call.start /\ call.start <= heap[call.h].length

(* C4 as stated: setLine(paragraph, start, start) raises nothing and returns a
   line handle of length 0 with 0 runs. *)
C4_EmptyLineIsValid ==
    EmptyLineAsked
        => /\ exc = "none"
           /\ ret \in owned
           /\ \A r \in getLength(heap, ret) : r.ret = 0 /\ r.exc = "none"
           /\ \A r \in countRuns(heap, ret) : r.ret = 0 /\ r.exc = "none"

(* C4: setLine(paragraph, start, start) on a resolved paragraph, 0 <= start <=
   paragraph length, signals an illegal argument and hands the caller no line
   handle. *)
C4_EmptyLineIsRejected ==
    EmptyLineAsked => (exc = "U_ILLEGAL_ARGUMENT_ERROR" /\ ret \notin owned)

C4_Witness ==
    /\ EmptyLineAsked
    /\ 0 < call.start /\ call.start < heap[call.h].length
    /\ exc = "U_ILLEGAL_ARGUMENT_ERROR"

(* C5: setLine on a resolved paragraph with start < 0, start > limit or
   limit > paragraph length signals an illegal argument and leaves the parent
   paragraph object as it was. *)
C5_BadRangeRejected ==
    [][(/\ call = NoCall
        /\ call'.op = "setLine"
        /\ IsValidPara(heap, call'.h)
        /\ \/ call'.start < 0
           \/ call'.start > call'.limit
           \/ call'.limit > heap[call'.h].length)
          => /\ exc' = "U_ILLEGAL_ARGUMENT_ERROR"
             /\ heap'[call'.h] = heap[call'.h]]_vars

C5_Witness ==
    /\ call.op = "setLine"
    /\ IsValidPara(heap, call.h)
    /\ 0 <= call.start /\ call.start < call.limit
    /\ call.limit > heap[call.h].length
    /\ exc = "U_ILLEGAL_ARGUMENT_ERROR"

(* The finished call is a setPara that raised nothing. *)
SetParaSucceeded == call.op = "setPara" /\ exc = "none"

(* The finished call is getLevels on a resolved paragraph. *)
GotParaLevels == call.op = "getLevels" /\ IsValidPara(heap, call.h)

(* C7 as stated: after a successful setPara(text, length, ...) getLevels
   returns an array as long as getLength, the length passed to setPara; for
   empty text too, where countRuns returns 0, all without error. *)
C7_LevelsAsLongAsText ==
    /\ SetParaSucceeded
         => /\ \A r \in getLength(heap, call.h) :
                  r.ret = call.length /\ r.exc = "none"
            /\ \A r \in getLevels(heap, call.h) :
                  r.exc = "none" /\ ~r.ret.isNull /\ Len(r.ret.elems) = call.length
            /\ call.length = 0
                 => \A r \in countRuns(heap, call.h) : r.ret = 0 /\ r.exc = "none"
    /\ GotParaLevels
         => exc = "none" /\ ~ret.isNull /\ Len(ret.elems) = heap[call.h].length

(* C7: after a successful setPara(text, length, ...) getLength returns the
   length passed to setPara; for a non-empty text getLevels returns an array of
   that length without error; for an empty text countRuns returns 0 without
   error, and getLevels signals an illegal argument and returns null. *)
C7_LevelsAsLongAsNonEmptyText ==
    /\ SetParaSucceeded
         => /\ \A r \in getLength(heap, call.h) :
                  r.ret = call.length /\ r.exc = "none"
            /\ call.length > 0
                 => \A r \in getLevels(heap, call.h) :
                       r.exc = "none" /\ ~r.ret.isNull
                                      /\ Len(r.ret.elems) = call.length
            /\ call.length = 0
                 => /\ \A r \in countRuns(heap, call.h) :
                          r.ret = 0 /\ r.exc = "none"
                    /\ \A r \in getLevels(heap, call.h) :
                          r.exc = "U_ILLEGAL_ARGUMENT_ERROR" /\ r.ret.isNull
    /\ GotParaLevels
         => IF heap[call.h].length > 0
            THEN exc = "none" /\ ~ret.isNull /\ Len(ret.elems) = heap[call.h].length
            ELSE exc = "U_ILLEGAL_ARGUMENT_ERROR" /\ ret.isNull

C7_Witness ==
    /\ GotParaLevels
    /\ heap[call.h].length = 0
    /\ exc = "U_ILLEGAL_ARGUMENT_ERROR"

(* The object is a resolved paragraph, or a line of one, whose levels are
   where it left them: not freed, not its closed parent's. *)
Intact(hp, h) ==
    /\ IsValidParaOrLine(hp, h) = {TRUE}
    /\ hp[h].levelsAt # "freed"
    /\ hp[h].dangling = "no"

(* The level array of an intact object, as getLevels gives it. *)
LevelArrayOf(hp, h) ==
    IF hp[h].length = 0 THEN <<>>
    ELSE (CHOOSE r \in getLevels(hp, h) : TRUE).ret.elems

LevelChanges(lv) == Cardinality({i \in 2..Len(lv) : lv[i] # lv[i - 1]})

RunCountOf(lv) == IF Len(lv) = 0 THEN 0 ELSE LevelChanges(lv) + 1

(* runs are the maximal equal-level ranges of lv in logical order. *)
IsMaximalRunsOf(runs, lv) ==
    /\ Len(runs) = RunCountOf(lv)
    /\ Len(lv) > 0 => runs[1].start = 0 /\ runs[Len(runs)].limit = Len(lv)
    /\ \A i \in 1..Len(runs) :
          /\ runs[i].start < runs[i].limit
          /\ \A pos \in runs[i].start..(runs[i].limit - 1) :
                pos < Len(lv) /\ lv[pos + 1] = runs[i].level
    /\ \A i \in 2..Len(runs) :
          /\ runs[i].start = runs[i - 1].limit
          /\ runs[i].level # runs[i - 1].level

(* C6: for a resolved paragraph or line, getRuns returns the maximal
   equal-level ranges of the level array in logical order (first start 0, each
   start the previous limit, last limit the length, one level inside a run,
   adjacent runs of different levels), and countRuns returns their number:
   level changes + 1, or 0 for an empty one. *)
C6_RunsAreMaximalLevelRanges ==
    /\ (call.op = "getRuns" /\ Intact(heap, call.h))
         => /\ exc = "none"
            /\ ~ret.isNull
            /\ IsMaximalRunsOf(ret.elems, LevelArrayOf(heap, call.h))
    /\ (call.op = "countRuns" /\ Intact(heap, call.h))
         => /\ exc = "none"
            /\ ret = RunCountOf(LevelArrayOf(heap, call.h))

C6_Witness ==
    /\ call.op = "getRuns"
    /\ Intact(heap, call.h)
    /\ IsLine(heap, call.h)
    /\ exc = "none"
    /\ Len(ret.elems) = 2

(* What the four queries answer on handle h. *)
Answers(hp, h) ==
    [length |-> {<<r.ret, r.exc>> : r \in getLength(hp, h)},
     levels |-> {<<r.ret, r.exc>> : r \in getLevels(hp, h)},
     count  |-> {<<r.ret, r.exc>> : r \in countRuns(hp, h)},
     runs   |-> {<<r.ret, r.exc>> : r \in getRuns(hp, h)}]

(* Handle h is a line the caller holds, before and after the step. *)
StaysLine(h) ==
    /\ h \in owned /\ h \in owned'
    /\ IsLine(heap, h) /\ IsLine(heap', h)

(* C1 as stated: a line is self-contained; whatever is done to its parent
   paragraph handle (close, setPara), the queries on the line answer what they
   answered before. *)
C1_LineSelfContained ==
    [][\A h \in Handles :
          StaysLine(h) => Answers(heap', h) = Answers(heap, h)]_vars

(* C1: as long as the parent paragraph handle has been neither closed nor
   given to setPara since the line was made, the queries on the line answer
   the same from one call to the next; the line reads its parent's memory. *)
C1_LineStableWhileParentKept ==
    [][\A h \in Handles :
          (StaysLine(h) /\ heap'[h].dangling = "no")
              => Answers(heap', h) = Answers(heap, h)]_vars

C1_Witness ==
    /\ call.op = "getLevels"
    /\ IsLine(heap, call.h)
    /\ heap[call.h].dangling = "no"
    /\ heap[call.h].levelsAt = "own"
    /\ exc = "none"

============================================================================
